---- MODULE Spec2Model ----
(***************************************************************************)
(* A model of package translate (src/translate.go): the read loop of       *)
(* Translate with its residue carry-over, the response decoder of          *)
(* translate, the delimiter scanner readUntil over a bufio.Reader, and     *)
(* Languages with its package-level cache.                                 *)
(*                                                                         *)
(* Bytes are one-character strings.  Slices are sequences; a Go slice      *)
(* expression s[lo:hi] is Slice(s, lo, hi) with Go's 0-based offsets.      *)
(***************************************************************************)
EXTENDS Integers, Sequences, FiniteSets, TLC

(***************************************************************************)
(* Sizes.  BufSize stands for the 5000 of `var buf [5000]byte`, scaled so  *)
(* that inputs shorter than, equal to and longer than the buffer are all   *)
(* explored.                                                               *)
(***************************************************************************)
BufSize == 3
MaxInput == 4
MaxFrags == 2
MaxZeroReads == 1
BufioSize == 3
MaxStream == 5
MaxSep == 3
\* goroutines calling Languages, calls of Languages in one run, and entries
\* of the primary document's language list
NumCallers == 2
MaxCalls == 3
MaxLangs == 2

NL == "\n"
ZeroByte == "0"
InputByte == {"a", NL}

Min(a, b) == IF a < b THEN a ELSE b

\* s[lo:hi] of Go, on a sequence or on an array indexed from 1
Slice(s, lo, hi) == [k \in 1..(hi - lo) |-> s[lo + k]]

RECURSIVE Concat(_)
Concat(ss) == IF ss = <<>> THEN <<>> ELSE Head(ss) \o Concat(Tail(ss))

SeqsUpTo(S, m) == UNION {[1..k -> S] : k \in 0..m}

IsPrefix(s, t) == Len(s) <= Len(t) /\ SubSeq(t, 1, Len(s)) = s

(***************************************************************************)
(* bytes.LastIndexByte: 0-based index of the last c in p, or -1.           *)
(***************************************************************************)
LastIndexByte(p, c) ==
    IF \E k \in 1..Len(p) : p[k] = c
    THEN (CHOOSE k \in 1..Len(p) : p[k] = c /\ \A m \in (k + 1)..Len(p) : p[m] # c) - 1
    ELSE -1

(***************************************************************************)
(* JSON values as encoding/json decodes them into `any`.  A string carries *)
(* its bytes (v) and what json.Unmarshal makes of those bytes (json):      *)
(* a value, or BadJSON when the bytes are not JSON text.                   *)
(***************************************************************************)
BadJSON == [t |-> "bad", v |-> <<>>, json |-> <<>>]
Null == [t |-> "null", v |-> <<>>, json |-> <<>>]
Num == [t |-> "num", v |-> <<>>, json |-> <<>>]
Arr(es) == [t |-> "arr", v |-> es, json |-> <<>>]
Str(bs) == [t |-> "str", v |-> bs, json |-> <<BadJSON>>]
JSONText(val) == [t |-> "str", v |-> <<>>, json |-> <<val>>]

(***************************************************************************)
(* Response decoding, translate lines 216-258.  A result is                *)
(*   [kind |-> "ok",    out |-> bytes]   the translation,                  *)
(*   [kind |-> "err",   out |-> <<>>]    a returned error,                 *)
(*   [kind |-> "panic", out |-> <<>>]    a run-time panic (index out of    *)
(*                                       range).                           *)
(* A body is [marker |-> whether "[[" occurs in it,                        *)
(*            json   |-> what the bytes from the marker on decode to].     *)
(***************************************************************************)
Ok(bs) == [kind |-> "ok", out |-> bs]
Err == [kind |-> "err", out |-> <<>>]
Panic == [kind |-> "panic", out |-> <<>>]

\* d.Decode(&x) with x [][]any: an array whose elements are arrays or null
DecodesAsArrayOfArrays(val) ==
    /\ val.t = "arr"
    /\ \A k \in 1..Len(val.v) : val.v[k].t \in {"arr", "null"}

\* the elements of a []any held in an interface; a null decodes to a nil slice
Elems(val) == IF val.t = "arr" THEN val.v ELSE <<>>

\* for _, n := range []int{1, 0, 0, 5} { y, ok = y[n].([]any) ... }
RECURSIVE Descend(_, _)
Descend(y, path) ==
    IF path = <<>> THEN [kind |-> "ok", y |-> y]
    ELSE IF Head(path) >= Len(y) THEN [kind |-> "panic", y |-> <<>>]
    ELSE IF y[Head(path) + 1].t # "arr" THEN [kind |-> "err", y |-> <<>>]
    ELSE Descend(y[Head(path) + 1].v, Tail(path))

\* for _, x := range y { x.([]any); x[0].(string); buf.WriteString(s) }
RECURSIVE Fragments(_, _)
Fragments(y, acc) ==
    IF y = <<>> THEN Ok(acc)
    ELSE IF Head(y).t # "arr" THEN Err
    ELSE IF Len(Head(y).v) = 0 THEN Panic
    ELSE IF Head(y).v[1].t # "str" THEN Err
    ELSE Fragments(Tail(y), acc \o Head(y).v[1].v)

\* EnsureNewline without lines 254-257: the newline is never appended
EnsureNewlineNeverAppends(b) ==
    IF Len(b) = 0 THEN Panic ELSE Ok(b)

\* b = buf.Bytes(); if b[len(b)-1] != '\n' { buf.WriteByte('\n') }
EnsureNewline(b) ==
    IF Len(b) = 0 THEN Panic
    ELSE IF b[Len(b)] # NL THEN Ok(Append(b, NL))
    ELSE Ok(b)

\* json.Unmarshal([]byte(s), &y) with y []any, then the descent and the loop
DecodeInner(s) ==
    LET val == s.json[1] IN
    IF val.t \notin {"arr", "null"} THEN Err
    ELSE LET d == Descend(Elems(val), <<1, 0, 0, 5>>) IN
         IF d.kind = "panic" THEN Panic
         ELSE IF d.kind = "err" THEN Err
         ELSE LET f == Fragments(d.y, <<>>) IN
              IF f.kind # "ok" THEN f ELSE EnsureNewline(f.out)

Decode(body) ==
    IF ~body.marker THEN Err
    ELSE IF ~DecodesAsArrayOfArrays(body.json) THEN Err
    ELSE LET x == body.json.v IN
         IF Len(x) = 0 THEN Panic
         ELSE IF Len(Elems(x[1])) < 3 THEN Panic
         ELSE IF Elems(x[1])[3].t # "str" THEN Err
         ELSE DecodeInner(Elems(x[1])[3])

(***************************************************************************)
(* The response bodies explored: every well-formed reply over a small set  *)
(* of fragments, and one malformed reply per check of the decoder.         *)
(***************************************************************************)
FragStr == {<<>>, <<"x">>, <<NL>>}
FragElem == {Arr(<<Str(s)>>) : s \in FragStr} \cup {Arr(<<>>), Num, Arr(<<Num>>)}
FragLists == SeqsUpTo(FragElem, MaxFrags)

Level5(f) == Arr(<<Null, Null, Null, Null, Null, f>>)
Inner(f) == Arr(<<Null, Arr(<<Arr(<<f>>)>>)>>)
Envelope(s) == [marker |-> TRUE, json |-> Arr(<<Arr(<<Null, Null, s>>)>>)]
WellFormed(fl) == Envelope(JSONText(Inner(Level5(Arr(fl)))))

Malformed ==
    { [marker |-> FALSE, json |-> BadJSON],
      [marker |-> TRUE, json |-> BadJSON],
      [marker |-> TRUE, json |-> Arr(<<Arr(<<>>), Num>>)],
      [marker |-> TRUE, json |-> Arr(<<Arr(<<>>)>>)],
      [marker |-> TRUE, json |-> Arr(<<Arr(<<Null, Null>>)>>)],
      Envelope(Num),
      Envelope(Str(<<"x">>)),
      Envelope(JSONText(Num)),
      Envelope(JSONText(Null)),
      Envelope(JSONText(Arr(<<>>))),
      Envelope(JSONText(Arr(<<Null, Null>>))),
      Envelope(JSONText(Arr(<<Null, Arr(<<>>)>>))),
      Envelope(JSONText(Arr(<<Null, Arr(<<Arr(<<>>)>>)>>))),
      Envelope(JSONText(Inner(Arr(<<Null, Null, Null, Null, Null>>)))),
      Envelope(JSONText(Inner(Level5(Null)))) }

Bodies == Malformed \cup {WellFormed(fl) : fl \in FragLists}

\* the bodies the endpoint answers Translate with: the malformed ones, a
\* translation that lacks its final newline and one that ends in a blank line
Replies ==
    Malformed \cup { WellFormed(<<Arr(<<Str(<<"x">>)>>)>>),
                     WellFormed(<<Arr(<<Str(<<NL>>)>>), Arr(<<Str(<<NL>>)>>)>>) }

(***************************************************************************)
(* Translate, lines 35-67.                                                 *)
(*   rest        bytes the source r has not delivered yet                  *)
(*   buf, i      var buf [5000]byte and the residue length i               *)
(*   n, j        the locals of one iteration, live across the codec call   *)
(*   out         the translation returned by translate for this segment    *)
(*   pc          "read"      at r.Read(p), line 41                         *)
(*               "translate" at the call of translate, line 58             *)
(*               "await"     inside translate, request sent (line 207)     *)
(*               "write"     at w.Write(out), line 63                      *)
(*               "done"      Translate has returned or panicked            *)
(*   ret         "none" while running, else "nil", "readerr", "neterr",    *)
(*               "decodeerr", "writeerr" or "panic"                        *)
(*   sink        the bytes w has received                                  *)
(* History, not read by the program:                                       *)
(*   delivered   the bytes the source has delivered, in order              *)
(*   segs        the arguments of the calls of translate, in call order    *)
(*   outs        the translations those calls returned                     *)
(*   netCalls    number of requests sent                                   *)
(*   outstanding number of requests sent and not yet answered              *)
(*   zeroReads   number of reads that returned no bytes and a nil error    *)
(*   lastZero    TRUE when the last read returned no bytes and a nil error *)
(***************************************************************************)
VARIABLES rest, buf, i, n, j, out, pc, ret, sink,
          delivered, segs, outs, netCalls, outstanding, zeroReads, lastZero

tvars == <<rest, buf, i, n, j, out, pc, ret, sink,
           delivered, segs, outs, netCalls, outstanding, zeroReads, lastZero>>

(***************************************************************************)
(* One call of translate, lines 186-259, on its own.                       *)
(*   cdata   the argument data                                             *)
(*   cpc     "call" before the call, "await" once the request is sent,     *)
(*           "returned" after the return or the panic                      *)
(*   cbody   the response body read at line 212                            *)
(*   cres    the result: kind "none" before the return, then "ok", "err"   *)
(*           (a decode error), "neterr" (a transport error) or "panic"     *)
(*   cnet    number of requests sent                                       *)
(***************************************************************************)
VARIABLES cdata, cpc, cbody, cres, cnet

cvars == <<cdata, cpc, cbody, cres, cnet>>

(***************************************************************************)
(* readUntil, lines 143-184, over a bufio.Reader.                          *)
(*   rin       the whole stream (constant; history)                        *)
(*   rstream   the bytes the underlying reader has not handed over yet     *)
(*   rbuffered the bytes buffered and unread, b.buf[b.r:b.w]               *)
(*   rerr      b.err, the error the last underlying read left pending:     *)
(*             "nil", "EOF" or "err"                                       *)
(*   sep       the delimiter                                               *)
(*   firstPartMatched  the local of that name                              *)
(*   rpc       "start" at line 144, "scan" inside buf.ReadSlice,           *)
(*             "done" after the return or the panic                        *)
(*   rret      "none" before the return, then "nil", "err" or "panic"      *)
(*   rpos      number of bytes ReadSlice has handed out: the position of   *)
(*             the stream as the caller of readUntil sees it (history)     *)
(*   rlast     the error of the last ReadSlice: "none" before the first,   *)
(*             then "nil", "EOF", "err" or "full" (history)                *)
(*   rrefill   TRUE once ReadSlice has returned ErrBufferFull with the     *)
(*             stream positioned inside the first occurrence of the        *)
(*             delimiter (history)                                         *)
(***************************************************************************)
VARIABLES rin, rstream, rbuffered, rerr, sep, firstPartMatched, rpc, rret, rpos,
          rlast, rrefill

rvars == <<rin, rstream, rbuffered, rerr, sep, firstPartMatched, rpc, rret, rpos,
           rlast, rrefill>>

(***************************************************************************)
(* Languages, lines 79-125, called by the goroutines of Callers, and the   *)
(* package variable cachedLangs of line 27.                                *)
(*   cachedLangs [nil |-> TRUE] for the nil slice, else the slice's        *)
(*               elements in list                                          *)
(*   ldoc        the language codes of the primary document, in order      *)
(*   lpc         per caller: "idle" outside Languages, "get1" at line 83,  *)
(*               "scan1" at line 93, "decode1" at line 97, "get2" at line  *)
(*               104, "scan2" at line 110, "decode2" at line 116, "merge"  *)
(*               in the loop of lines 121-123                              *)
(*   llangs      per caller: the local langs                               *)
(*   lk          per caller: number of iterations of the loop of line 121  *)
(*   lfetch      per caller: http.Get calls made by the call in progress   *)
(*               (history)                                                 *)
(*   lhist       the calls that have returned, in order of return: whether *)
(*               the error is non-nil, the slice returned and the number   *)
(*               of http.Get calls made (history)                          *)
(***************************************************************************)
VARIABLES cachedLangs, ldoc, lpc, llangs, lk, lfetch, lhist

lvars == <<cachedLangs, ldoc, lpc, llangs, lk, lfetch, lhist>>

vars == <<tvars, cvars, rvars, lvars>>

\* what each operation leaves alone of the other operations' state
tframe == <<cvars, rvars, lvars>>
cframe == <<tvars, rvars, lvars>>
rframe == <<tvars, cvars, lvars>>
lframe == <<tvars, cvars, rvars>>

Inputs == SeqsUpTo(InputByte, MaxInput)

\* the goroutines that call Languages
Callers == 1..NumCallers

\* BufLen with the array declared one byte longer than the cap
BufLenOneMore == BufSize + 1

\* len(buf) of `var buf [5000]byte`
BufLen == BufSize

\* BypassesNetwork without the length check of line 187
NeverBypasses(data) == FALSE

\* translate lines 187-189: if len(data) == 0 { return []byte{}, nil }
BypassesNetwork(data) == Len(data) = 0

NoBody == [marker |-> FALSE, json |-> BadJSON]
NoResult == [kind |-> "none", out |-> <<>>]

CodecIdle ==
    /\ cdata = <<>>
    /\ cpc = "call"
    /\ cbody = NoBody
    /\ cres = NoResult
    /\ cnet = 0

TranslateInit ==
    /\ rest \in Inputs
    /\ buf = [k \in 1..BufLen |-> ZeroByte]
    /\ i = 0
    /\ n = 0
    /\ j = 0
    /\ out = <<>>
    /\ pc = "read"
    /\ ret = "none"
    /\ sink = <<>>
    /\ delivered = <<>>
    /\ segs = <<>>
    /\ outs = <<>>
    /\ netCalls = 0
    /\ outstanding = 0
    /\ zeroReads = 0
    /\ lastZero = FALSE

ScannerIdle ==
    /\ rin = <<>>
    /\ rstream = <<>>
    /\ rbuffered = <<>>
    /\ rerr = "nil"
    /\ sep = <<>>
    /\ firstPartMatched = FALSE
    /\ rpc = "start"
    /\ rret = "none"
    /\ rpos = 0
    /\ rlast = "none"
    /\ rrefill = FALSE

\* var cachedLangs []Language: the nil slice
NilLangs == [nil |-> TRUE, list |-> <<>>]

LanguagesIdle ==
    /\ cachedLangs = NilLangs
    /\ ldoc = <<>>
    /\ lpc = [c \in Callers |-> "idle"]
    /\ llangs = [c \in Callers |-> <<>>]
    /\ lk = [c \in Callers |-> 0]
    /\ lfetch = [c \in Callers |-> 0]
    /\ lhist = <<>>

TranslateIdle ==
    /\ rest = <<>>
    /\ buf = [k \in 1..BufLen |-> ZeroByte]
    /\ i = 0
    /\ n = 0
    /\ j = 0
    /\ out = <<>>
    /\ pc = "read"
    /\ ret = "none"
    /\ sink = <<>>
    /\ delivered = <<>>
    /\ segs = <<>>
    /\ outs = <<>>
    /\ netCalls = 0
    /\ outstanding = 0
    /\ zeroReads = 0
    /\ lastZero = FALSE

Init == TranslateInit /\ CodecIdle /\ ScannerIdle /\ LanguagesIdle

\* CutPoint leaving the newline to the residue
CutPointBeforeNewline(p) ==
    LET l == LastIndexByte(p, NL) IN
    IF l < 0 THEN Len(p) ELSE l

\* j of lines 51-56, from the block p just read
CutPoint(p) ==
    LET l == LastIndexByte(p, NL) IN
    IF l < 0 THEN Len(p) ELSE l + 1

\* buf after r.Read(p) stored data in p = buf[i:]
Store(b, at, data) ==
    [k \in 1..BufLen |-> IF k > at /\ k <= at + Len(data) THEN data[k - at] ELSE b[k]]

\* copy(buf[:], residue): the bytes of residue moved to the front of buf
Copy(b, residue) ==
    [k \in 1..BufLen |-> IF k <= Len(residue) THEN residue[k] ELSE b[k]]

\* Residue cut one byte late, p[j+1:]
ResidueOneLate == Slice(buf, i + j + 1, i + n)

\* residue := p[j:] with p = buf[i:][:n]
Residue == Slice(buf, i + j, i + n)

\* buf[:i+j], the argument of translate
Segment == Slice(buf, 0, i + j)

\* line 62, i = copy(buf[:], residue); n and j are dead from here on
CarryResidue ==
    /\ buf' = Copy(buf, Residue)
    /\ i' = Len(Residue)
    /\ n' = 0
    /\ j' = 0

Return(r) ==
    /\ pc' = "done"
    /\ ret' = r

\* AtEnd answering yes only while a residue is buffered
AtEndWithResidue(e, cnt) == e = "EOF" /\ cnt = 0 /\ i > 0

\* lines 43-48: io.EOF with nothing read and nothing buffered
AtEnd(e, cnt) == e = "EOF" /\ cnt = 0 /\ i = 0

(***************************************************************************)
(* Lines 40-57: one r.Read(p).  The source hands over cnt bytes, at most   *)
(* len(p) and at most what it has left, with a nil error, io.EOF (only     *)
(* once nothing is left after this read) or another error.  Reads of no    *)
(* bytes with a nil error are counted and capped at MaxZeroReads.          *)
(***************************************************************************)
ReadStep ==
    /\ pc = "read"
    /\ \E cnt \in 0..Min(BufLen - i, Len(rest)), e \in {"nil", "EOF", "err"} :
         /\ e = "EOF" => cnt = Len(rest)
         /\ (cnt = 0 /\ e = "nil") => zeroReads < MaxZeroReads
         /\ zeroReads' = IF cnt = 0 /\ e = "nil" THEN zeroReads + 1 ELSE zeroReads
         /\ lastZero' = (cnt = 0 /\ e = "nil")
         /\ LET data == SubSeq(rest, 1, cnt) IN
            /\ buf' = Store(buf, i, data)
            /\ rest' = SubSeq(rest, cnt + 1, Len(rest))
            /\ delivered' = delivered \o data
            /\ IF e = "err" THEN
                    /\ Return("readerr")
                    /\ UNCHANGED <<n, j>>
               ELSE IF AtEnd(e, cnt) THEN
                    /\ Return("nil")
                    /\ UNCHANGED <<n, j>>
               ELSE /\ n' = cnt
                    /\ j' = CutPoint(data)
                    /\ pc' = "translate"
                    /\ ret' = ret
    /\ UNCHANGED <<i, out, sink, segs, outs, netCalls, outstanding>>
    /\ UNCHANGED tframe

(***************************************************************************)
(* Line 58 and translate lines 186-207: an empty segment returns at once   *)
(* with an empty translation; any other is sent as one request.            *)
(***************************************************************************)
TranslateCall ==
    /\ pc = "translate"
    /\ segs' = Append(segs, Segment)
    /\ IF BypassesNetwork(Segment) THEN
            /\ out' = <<>>
            /\ outs' = Append(outs, <<>>)
            /\ CarryResidue
            /\ pc' = "write"
            /\ UNCHANGED <<netCalls, outstanding>>
       ELSE /\ netCalls' = netCalls + 1
            /\ outstanding' = outstanding + 1
            /\ pc' = "await"
            /\ UNCHANGED <<out, outs, buf, i, n, j>>
    /\ UNCHANGED <<rest, ret, sink, delivered, zeroReads, lastZero>>
    /\ UNCHANGED tframe

\* translate lines 207-215: the transport or the body read fails
TransportError ==
    /\ pc = "await"
    /\ outstanding' = outstanding - 1
    /\ Return("neterr")
    /\ UNCHANGED <<rest, buf, i, n, j, out, sink, delivered, segs, outs, netCalls, zeroReads, lastZero>>
    /\ UNCHANGED tframe

\* translate lines 212-258 and Translate lines 59-62: a body arrives
Response ==
    /\ pc = "await"
    /\ outstanding' = outstanding - 1
    /\ \E body \in Replies :
         LET d == Decode(body) IN
         IF d.kind = "ok" THEN
              /\ out' = d.out
              /\ outs' = Append(outs, d.out)
              /\ CarryResidue
              /\ pc' = "write"
              /\ ret' = ret
         ELSE /\ Return(IF d.kind = "err" THEN "decodeerr" ELSE "panic")
              /\ UNCHANGED <<out, outs, buf, i, n, j>>
    /\ UNCHANGED <<rest, sink, delivered, segs, netCalls, zeroReads, lastZero>>
    /\ UNCHANGED tframe

\* WriteStep putting the translation in front of what the sink holds
WriteStepInFront ==
    /\ pc = "write"
    /\ sink' = out \o sink
    /\ pc' = "read"
    /\ UNCHANGED <<rest, buf, i, n, j, out, ret, delivered, segs, outs, netCalls, outstanding, zeroReads, lastZero>>
    /\ UNCHANGED tframe

\* lines 63-65: w.Write(out) accepts all of out
WriteStep ==
    /\ pc = "write"
    /\ sink' = sink \o out
    /\ pc' = "read"
    /\ UNCHANGED <<rest, buf, i, n, j, out, ret, delivered, segs, outs, netCalls, outstanding, zeroReads, lastZero>>
    /\ UNCHANGED tframe

\* lines 63-65: w.Write(out) fails after accepting m bytes of out
WriteError ==
    /\ pc = "write"
    /\ \E m \in 0..Len(out) : sink' = sink \o SubSeq(out, 1, m)
    /\ Return("writeerr")
    /\ UNCHANGED <<rest, buf, i, n, j, out, delivered, segs, outs, netCalls, outstanding, zeroReads, lastZero>>
    /\ UNCHANGED tframe

TranslateNext ==
    \/ ReadStep
    \/ TranslateCall
    \/ TransportError
    \/ Response
    \/ WriteStep
    \/ WriteError

Next == TranslateNext

Spec == Init /\ [][Next]_vars

(***************************************************************************)
(* Translate over a source and a codec that do not fail: every read        *)
(* returns a nil error or io.EOF, a source with nothing left answers       *)
(* (0, io.EOF), every request is answered with a translation and every     *)
(* write is accepted.  The loop always takes its next step: Translate is   *)
(* sequential code and every call it makes returns.                        *)
(***************************************************************************)
ReadOK ==
    /\ ReadStep
    /\ ret' # "readerr"
    /\ rest = <<>> => ~lastZero'

\* the translation every request is answered with; the loop passes out to
\* w.Write and never reads it
LiveReply == <<"x", NL>>

ResponseOK ==
    /\ Response
    /\ pc' = "write"
    /\ out' = LiveReply

LiveNext ==
    \/ ReadOK
    \/ TranslateCall
    \/ ResponseOK
    \/ WriteStep

SpecLive == Init /\ [][LiveNext]_vars /\ WF_vars(LiveNext)

(***************************************************************************)
(* translate called once, with any segment and any response body.          *)
(***************************************************************************)
CodecData == {<<>>, <<"a">>, <<"a", NL>>}

CodecInit ==
    /\ cdata \in CodecData
    /\ cpc = "call"
    /\ cbody = NoBody
    /\ cres = NoResult
    /\ cnet = 0
    /\ TranslateIdle
    /\ ScannerIdle
    /\ LanguagesIdle

\* lines 186-207: the empty segment returns at once, any other is sent
CodecCall ==
    /\ cpc = "call"
    /\ IF BypassesNetwork(cdata) THEN
            /\ cres' = Ok(<<>>)
            /\ cpc' = "returned"
            /\ cnet' = cnet
       ELSE /\ cnet' = cnet + 1
            /\ cpc' = "await"
            /\ cres' = cres
    /\ UNCHANGED <<cdata, cbody>>
    /\ UNCHANGED cframe

\* lines 207-215: http.DefaultClient.Do or ioutil.ReadAll fails
CodecTransportError ==
    /\ cpc = "await"
    /\ cres' = [kind |-> "neterr", out |-> <<>>]
    /\ cpc' = "returned"
    /\ UNCHANGED <<cdata, cbody, cnet>>
    /\ UNCHANGED cframe

\* lines 212-258: the body is read and decoded
CodecResponse ==
    /\ cpc = "await"
    /\ \E body \in Bodies :
         /\ cbody' = body
         /\ cres' = Decode(body)
    /\ cpc' = "returned"
    /\ UNCHANGED <<cdata, cnet>>
    /\ UNCHANGED cframe

CodecNext ==
    \/ CodecCall
    \/ CodecTransportError
    \/ CodecResponse

SpecCodec == CodecInit /\ [][CodecNext]_vars

(***************************************************************************)
(* readUntil and the bufio.Reader it scans.  BufioSize stands for the 4096 *)
(* bytes of bufio.NewReader, scaled.                                       *)
(***************************************************************************)
StreamByte == {"A", "B", "C"}
SepByte == {"A", "B", "C"}
Streams == SeqsUpTo(StreamByte, MaxStream)
Seps == SeqsUpTo(SepByte, MaxSep)

\* bytes.IndexByte: 0-based index of the first c in s, or -1
IndexByte(s, c) ==
    IF \E k \in 1..Len(s) : s[k] = c
    THEN (CHOOSE k \in 1..Len(s) : s[k] = c /\ \A m \in 1..(k - 1) : s[m] # c) - 1
    ELSE -1

\* bytes.HasSuffix
HasSuffix(s, suffix) ==
    /\ Len(suffix) <= Len(s)
    /\ SubSeq(s, Len(s) - Len(suffix) + 1, Len(s)) = suffix

\* lines 151-152
SepLastByte == sep[Len(sep)]
SepPrefix == SubSeq(sep, 1, Len(sep) - 1)

ScannerInit ==
    /\ rin \in Streams
    /\ rstream = rin
    /\ rbuffered = <<>>
    /\ rerr = "nil"
    /\ sep \in Seps
    /\ firstPartMatched = FALSE
    /\ rpc = "start"
    /\ rret = "none"
    /\ rpos = 0
    /\ rlast = "none"
    /\ rrefill = FALSE
    /\ TranslateIdle
    /\ CodecIdle
    /\ LanguagesIdle

\* lines 144-154
ScanStart ==
    /\ rpc = "start"
    /\ IF Len(sep) = 0 THEN rpc' = "done" /\ rret' = "nil"
       ELSE rpc' = "scan" /\ rret' = rret
    /\ UNCHANGED <<rin, rstream, rbuffered, rerr, sep, firstPartMatched, rpos,
                   rlast, rrefill>>
    /\ UNCHANGED rframe

\* buf.ReadSlice(sepLastByte) can return without another underlying read
ReadSliceReady ==
    \/ IndexByte(rbuffered, SepLastByte) >= 0
    \/ rerr # "nil"
    \/ Len(rbuffered) >= BufioSize

(***************************************************************************)
(* b.fill() inside ReadSlice: one underlying Read into the free part of    *)
(* the buffer.  It hands over cnt >= 1 bytes, or none together with an     *)
(* error; io.EOF comes only once nothing is left after this read.          *)
(***************************************************************************)
Fill ==
    /\ rpc = "scan"
    /\ ~ReadSliceReady
    /\ \E cnt \in 0..Min(BufioSize - Len(rbuffered), Len(rstream)),
          e \in {"nil", "EOF", "err"} :
         /\ e = "EOF" => cnt = Len(rstream)
         /\ e = "nil" => cnt > 0
         /\ rbuffered' = rbuffered \o SubSeq(rstream, 1, cnt)
         /\ rstream' = SubSeq(rstream, cnt + 1, Len(rstream))
         /\ rerr' = e
    /\ UNCHANGED <<rin, sep, firstPartMatched, rpc, rret, rpos, rlast, rrefill>>
    /\ UNCHANGED rframe

\* what ReadSlice returns: the line, the error and the bytes left buffered
ReadSliceResult ==
    LET at == IndexByte(rbuffered, SepLastByte) IN
    IF at >= 0 THEN
        [line |-> SubSeq(rbuffered, 1, at + 1), err |-> "nil",
         left |-> SubSeq(rbuffered, at + 2, Len(rbuffered)), pending |-> rerr]
    ELSE IF rerr # "nil" THEN
        [line |-> rbuffered, err |-> rerr, left |-> <<>>, pending |-> "nil"]
    ELSE
        [line |-> rbuffered, err |-> "full", left |-> <<>>, pending |-> rerr]

\* lines 162-168: "matched", "nomatch", or "panic" on a negative slice bound
RECURSIVE PartOfSepFound(_, _)
PartOfSepFound(line, at) ==
    IF at >= Len(SepPrefix) THEN "nomatch"
    ELSE IF Len(line) - Len(SepPrefix) + at < 0 THEN "panic"
    ELSE IF Slice(line, Len(line) - Len(SepPrefix) + at, Len(line))
            = Slice(SepPrefix, at, Len(SepPrefix)) THEN "matched"
    ELSE PartOfSepFound(line, at + 1)

\* lines 160-181 for one line: "continue" (line 166), "return nil",
\* "return err", "panic" or "next" (fall through to line 182)
Verdict(line, err) ==
    IF err = "full" THEN
        (IF PartOfSepFound(line, 0) = "matched" THEN "continue"
         ELSE IF PartOfSepFound(line, 0) = "panic" THEN "panic"
         ELSE "next")
    ELSE IF err = "err" THEN "return err"
    ELSE IF Len(line) <= Len(sep) THEN
        (IF firstPartMatched /\ line = Slice(sep, Len(sep) - Len(line), Len(sep))
         THEN "return nil" ELSE "next")
    ELSE IF HasSuffix(line, sep) \/ err = "EOF" THEN "return nil"
    ELSE "next"

\* where the delimiter lies in the stream (for the history variables and
\* the properties; readUntil itself does not know)
OccursAt(e) == e >= Len(sep) /\ e <= Len(rin) /\ SubSeq(rin, e - Len(sep) + 1, e) = sep
Occurs == \E e \in 1..Len(rin) : OccursAt(e)
FirstEnd == CHOOSE e \in 1..Len(rin) : OccursAt(e) /\ \A d \in 1..(e - 1) : ~OccursAt(d)
InsideFirst(at) == Len(sep) > 0 /\ Occurs /\ FirstEnd - Len(sep) < at /\ at < FirstEnd

\* lines 157-182: ReadSlice returns and the loop body handles the line
ScanStep ==
    /\ rpc = "scan"
    /\ ReadSliceReady
    /\ LET r == ReadSliceResult
           v == Verdict(r.line, r.err) IN
       /\ rbuffered' = r.left
       /\ rerr' = r.pending
       /\ rpos' = rpos + Len(r.line)
       /\ rlast' = r.err
       /\ rrefill' = (rrefill \/ (r.err = "full" /\ InsideFirst(rpos + Len(r.line))))
       /\ firstPartMatched' = (v = "continue")
       /\ rpc' = IF v \in {"continue", "next"} THEN "scan" ELSE "done"
       /\ rret' = CASE v = "return nil" -> "nil"
                    [] v = "return err" -> "err"
                    [] v = "panic" -> "panic"
                    [] OTHER -> rret
    /\ UNCHANGED <<rin, rstream, sep>>
    /\ UNCHANGED rframe

ScannerNext ==
    \/ ScanStart
    \/ Fill
    \/ ScanStep

SpecScanner == ScannerInit /\ [][ScannerNext]_vars

(***************************************************************************)
(* Languages, lines 79-125.  A language code is a number; AutoCode is the  *)
(* "auto" of the delimiter of line 90, which the decoder of line 97 is fed *)
(* first, so that every decoded list starts with it.  The secondary        *)
(* document has an endonym for every code but AutoCode.                    *)
(***************************************************************************)
AutoCode == 1
Catalogs == {[k \in 1..m |-> k] : m \in 1..MaxLangs}
NoEndonym == "none"
Endonym(code) == IF code = AutoCode THEN NoEndonym ELSE "endonym"

\* Language{Code: lang[0], EnglishName: lang[1], Endonym: endonyms[lang[0]]}
Language(code) == [Code |-> code, EnglishName |-> "name", Endonym |-> Endonym(code)]

\* make([]Language, 0, 136): not nil, no elements
MakeLangs == [nil |-> FALSE, list |-> <<>>]

\* Cached answering no whatever the cache holds
CachedNever == FALSE

\* line 80: cachedLangs != nil
Cached == ~cachedLangs.nil

LanguagesInit ==
    /\ cachedLangs = NilLangs
    /\ ldoc \in Catalogs
    /\ lpc = [c \in Callers |-> "idle"]
    /\ llangs = [c \in Callers |-> <<>>]
    /\ lk = [c \in Callers |-> 0]
    /\ lfetch = [c \in Callers |-> 0]
    /\ lhist = <<>>
    /\ TranslateIdle
    /\ CodecIdle
    /\ ScannerIdle

InProgress == {c \in Callers : lpc[c] # "idle"}

\* Languages returns to caller c: the error, the slice, and what the call did
LFinish(c, failed, val, fetched) ==
    /\ lpc' = [lpc EXCEPT ![c] = "idle"]
    /\ lhist' = Append(lhist, [err |-> failed, val |-> val, fetches |-> fetched])
    /\ llangs' = [llangs EXCEPT ![c] = <<>>]
    /\ lk' = [lk EXCEPT ![c] = 0]
    /\ lfetch' = [lfetch EXCEPT ![c] = 0]

\* return nil, err
LFail(c, fetched) == LFinish(c, TRUE, NilLangs, fetched) /\ UNCHANGED cachedLangs

\* lines 80-82: the call starts; a non-nil cache is returned at once
LEnter(c) ==
    /\ lpc[c] = "idle"
    /\ Len(lhist) + Cardinality(InProgress) < MaxCalls
    /\ IF Cached THEN LFinish(c, FALSE, cachedLangs, 0)
       ELSE /\ lpc' = [lpc EXCEPT ![c] = "get1"]
            /\ UNCHANGED <<llangs, lk, lfetch, lhist>>
    /\ UNCHANGED <<cachedLangs, ldoc>>
    /\ UNCHANGED lframe

\* LEnter while no other call is in progress
LEnterAlone(c) ==
    /\ InProgress = {}
    /\ LEnter(c)

\* lines 83-91: the first http.Get; on success the cache is assigned the
\* empty slice of line 91
LGet1(c) ==
    /\ lpc[c] = "get1"
    /\ \E ok \in BOOLEAN :
         IF ok THEN /\ cachedLangs' = MakeLangs
                    /\ lfetch' = [lfetch EXCEPT ![c] = lfetch[c] + 1]
                    /\ lpc' = [lpc EXCEPT ![c] = "scan1"]
                    /\ UNCHANGED <<llangs, lk, lhist>>
         ELSE LFail(c, lfetch[c] + 1)
    /\ UNCHANGED ldoc
    /\ UNCHANGED lframe

\* lines 93-95 and 110-113: readUntil returns nil or an error
LReadUntil(c) ==
    /\ lpc[c] \in {"scan1", "scan2"}
    /\ \E ok \in BOOLEAN :
         IF ok THEN /\ lpc' = [lpc EXCEPT ![c] = IF lpc[c] = "scan1" THEN "decode1"
                                                  ELSE "decode2"]
                    /\ UNCHANGED <<cachedLangs, llangs, lk, lfetch, lhist>>
         ELSE LFail(c, lfetch[c])
    /\ UNCHANGED ldoc
    /\ UNCHANGED lframe

\* lines 96-100: the list of [code, English name] pairs is decoded
LDecode1(c) ==
    /\ lpc[c] = "decode1"
    /\ \E ok \in BOOLEAN :
         IF ok THEN /\ llangs' = [llangs EXCEPT ![c] = ldoc]
                    /\ lpc' = [lpc EXCEPT ![c] = "get2"]
                    /\ UNCHANGED <<cachedLangs, lk, lfetch, lhist>>
         ELSE LFail(c, lfetch[c])
    /\ UNCHANGED ldoc
    /\ UNCHANGED lframe

\* lines 104-109: the second http.Get
LGet2(c) ==
    /\ lpc[c] = "get2"
    /\ \E ok \in BOOLEAN :
         IF ok THEN /\ lfetch' = [lfetch EXCEPT ![c] = lfetch[c] + 1]
                    /\ lpc' = [lpc EXCEPT ![c] = "scan2"]
                    /\ UNCHANGED <<cachedLangs, llangs, lk, lhist>>
         ELSE LFail(c, lfetch[c] + 1)
    /\ UNCHANGED ldoc
    /\ UNCHANGED lframe

\* lines 115-119: the endonyms are decoded
LDecode2(c) ==
    /\ lpc[c] = "decode2"
    /\ \E ok \in BOOLEAN :
         IF ok THEN /\ lpc' = [lpc EXCEPT ![c] = "merge"]
                    /\ UNCHANGED <<cachedLangs, llangs, lk, lfetch, lhist>>
         ELSE LFail(c, lfetch[c])
    /\ UNCHANGED ldoc
    /\ UNCHANGED lframe

\* lines 121-123: one iteration, cachedLangs = append(cachedLangs, ...)
LAppend(c) ==
    /\ lpc[c] = "merge"
    /\ lk[c] < Len(llangs[c])
    /\ cachedLangs' = [nil |-> FALSE,
                       list |-> Append(cachedLangs.list, Language(llangs[c][lk[c] + 1]))]
    /\ lk' = [lk EXCEPT ![c] = lk[c] + 1]
    /\ UNCHANGED <<ldoc, lpc, llangs, lfetch, lhist>>
    /\ UNCHANGED lframe

\* line 124: return cachedLangs, nil
LReturn(c) ==
    /\ lpc[c] = "merge"
    /\ lk[c] = Len(llangs[c])
    /\ LFinish(c, FALSE, cachedLangs, lfetch[c])
    /\ UNCHANGED <<cachedLangs, ldoc>>
    /\ UNCHANGED lframe

\* calls of Languages that do not overlap
LanguagesNext ==
    \/ \E c \in Callers : LEnterAlone(c)
    \/ \E c \in Callers : LGet1(c)
    \/ \E c \in Callers : LReadUntil(c)
    \/ \E c \in Callers : LDecode1(c)
    \/ \E c \in Callers : LGet2(c)
    \/ \E c \in Callers : LDecode2(c)
    \/ \E c \in Callers : LAppend(c)
    \/ \E c \in Callers : LReturn(c)

SpecLanguages == LanguagesInit /\ [][LanguagesNext]_vars

\* calls of Languages from goroutines that run at the same time; there is
\* no lock, each step above is one interleaving unit
RaceNext ==
    \/ \E c \in Callers : LEnter(c)
    \/ \E c \in Callers : LGet1(c)
    \/ \E c \in Callers : LReadUntil(c)
    \/ \E c \in Callers : LDecode1(c)
    \/ \E c \in Callers : LGet2(c)
    \/ \E c \in Callers : LDecode2(c)
    \/ \E c \in Callers : LAppend(c)
    \/ \E c \in Callers : LReturn(c)

SpecLanguagesRace == LanguagesInit /\ [][RaceNext]_vars

(***************************************************************************)
(* Properties of Translate, checked under Spec.                            *)
(***************************************************************************)
IsNonEmpty(x) == x # <<>>
NonEmpty(ss) == SelectSeq(ss, IsNonEmpty)
Range(f) == {f[x] : x \in DOMAIN f}
Last(x) == x[Len(x)]
Front(ss) == SubSeq(ss, 1, Len(ss) - 1)

\* C1: when Translate returns nil, the non-empty segments handed to
\* translate, concatenated in call order, are exactly the bytes the source
\* delivered, and no residue is left in buf.
C1_SegmentsReconstructInput ==
    ret = "nil" => /\ Concat(NonEmpty(segs)) = delivered
                   /\ i = 0

C1_Witness ==
    /\ ret = "nil"
    /\ Len(delivered) > BufSize
    /\ zeroReads > 0
    /\ Len(NonEmpty(segs)) >= 3
    /\ NL \in Range(delivered)

\* every line of s, its newline included, fits the buffer
LinesFit(s) ==
    \A a \in 1..Len(s) : \A b \in a..Len(s) :
        (\A k \in a..b : s[k] # NL) => b - a + 1 < BufSize

\* C2: for an input longer than the buffer that contains a newline (and
\* whose lines each fit the buffer), every segment handed to translate
\* except the last ends with a newline.
C2_SegmentsEndWithNewline ==
    (ret = "nil" /\ Len(delivered) > BufSize /\ NL \in Range(delivered)
                 /\ LinesFit(delivered))
        => \A k \in 1..(Len(NonEmpty(segs)) - 1) : Last(NonEmpty(segs)[k]) = NL

\* C3: no segment handed to translate is longer than the cap, the final
\* flush of the residue included.
C3_SegmentWithinCap ==
    /\ \A k \in 1..Len(segs) : Len(segs[k]) <= BufSize
    /\ pc = "translate" => i + j <= BufSize

C3_Witness ==
    /\ ret = "nil"
    /\ Len(segs) >= 2
    /\ \E k \in 1..Len(segs) : Len(segs[k]) = BufSize

\* C4: segments are handled one at a time and in order: at most one request
\* is outstanding, the source is read again only after the translation of
\* the previous segment is in the sink, and the sink holds the translations
\* in segment order.
C4_OneSegmentAtATime ==
    /\ outstanding \in {0, 1}
    /\ outstanding = 1 <=> pc = "await"
    /\ pc \in {"read", "translate"} => Len(outs) = Len(segs) /\ sink = Concat(outs)
    /\ pc = "await" => Len(outs) = Len(segs) - 1 /\ sink = Concat(outs)
    /\ pc = "write" => Len(outs) = Len(segs) /\ sink = Concat(Front(outs))
    /\ ret = "nil" => Len(outs) = Len(segs) /\ sink = Concat(outs)

C4_Witness ==
    /\ pc = "read"
    /\ Len(outs) >= 2
    /\ outs[1] # <<>>
    /\ outs[2] # <<>>
    /\ outs[1] # outs[2]

\* C5: a failing read, codec call or write makes Translate return that
\* error; after a read or codec error the sink holds the translations of
\* the earlier segments and nothing of the segment in flight.
C5_FailureReturnsError ==
    /\ pc = "done" => ret \in {"nil", "readerr", "neterr", "decodeerr", "writeerr"}
    /\ ret \in {"readerr", "neterr", "decodeerr"} => sink = Concat(outs)
    /\ ret = "writeerr" => IsPrefix(Concat(Front(outs)), sink)

\* C8: on an empty input no request is sent, the sink stays empty and nil
\* is returned (unless the source or the sink itself reports an error); an
\* empty segment never causes a request and yields an empty translation.
C8_EmptyInputNoRequest ==
    /\ (delivered = <<>> /\ rest = <<>>) =>
          /\ netCalls = 0
          /\ sink = <<>>
          /\ ret \in {"none", "nil", "readerr", "writeerr"}
    /\ \A k \in 1..Len(outs) : segs[k] = <<>> => outs[k] = <<>>
    /\ netCalls = Len(NonEmpty(segs))

C8_Witness ==
    /\ delivered = <<>>
    /\ rest = <<>>
    /\ ret = "nil"
    /\ zeroReads > 0
    /\ Len(segs) > 0

\* C9: an input no longer than the buffer and without a newline is handed
\* to translate as exactly one segment, the whole input.
C9_ShortInputOneSegment ==
    (ret = "nil" /\ delivered # <<>> /\ Len(delivered) <= BufSize
                 /\ NL \notin Range(delivered))
        => NonEmpty(segs) = <<delivered>>

(***************************************************************************)
(* Properties of translate's decoder, checked under SpecCodec.             *)
(***************************************************************************)
Decoded == cpc = "returned" /\ cnet = 1 /\ cres.kind # "neterr"

\* C6: whatever the response body, decoding ends in a translation or in a
\* returned decode error, never in a panic.
C6_DecodeNeverPanics ==
    Decoded => cres.kind \in {"ok", "err"}

\* C7 as stated: a translation returned for a non-empty segment ends with
\* a newline and not with two.
C7_ExactlyOneNewline ==
    (Decoded /\ cres.kind = "ok")
        => /\ Len(cres.out) >= 1
           /\ Last(cres.out) = NL
           /\ Len(cres.out) >= 2 => cres.out[Len(cres.out) - 1] # NL

\* C7 amended: a translation returned for a non-empty segment ends with a
\* newline (one or more).
C7_EndsWithNewline ==
    (Decoded /\ cres.kind = "ok")
        => /\ Len(cres.out) >= 1
           /\ Last(cres.out) = NL

C7_Witness ==
    /\ Decoded
    /\ cres = Ok(<<"x", "x", NL>>)

(***************************************************************************)
(* Properties of readUntil, checked under SpecScanner.                     *)
(***************************************************************************)

\* C10: if the delimiter occurs in the stream (and no underlying read has
\* failed), readUntil returns nil with the stream positioned right after
\* the first occurrence, and does not scan on past it.
C10_StopsAfterFirstOccurrence ==
    (Len(sep) > 0 /\ Occurs /\ rerr # "err" /\ rret # "err") =>
        /\ rpc = "scan" => rpos < FirstEnd
        /\ rpc = "done" => rret = "nil" /\ rpos = FirstEnd

Consumed == SubSeq(rin, 1, rpos)

\* C11: a delimiter that an internal buffer refill has split (ReadSlice
\* returned ErrBufferFull part-way through its first occurrence) is still
\* matched: readUntil does not scan on past it, and returns nil with the
\* stream positioned right after the delimiter's last byte.  A boundary between underlying reads alone
\* never reaches readUntil, b.fill() joins those reads in the buffer.
C11_MatchesAcrossRefills ==
    (rrefill /\ rerr # "err" /\ rret # "err") =>
        /\ rpc = "scan" => rpos < FirstEnd
        /\ rpc = "done" => rret = "nil" /\ rpos = FirstEnd

\* C12: when the stream holds no occurrence of the delimiter, readUntil
\* does not return success.
C12_NotFoundIsNotSuccess ==
    (Len(sep) > 0 /\ ~Occurs) => rret # "nil"

\* C16: readUntil returns nil only when the bytes consumed so far end with
\* the complete delimiter; stated here for returns away from end-of-stream
\* (the last ReadSlice found the delimiter's last byte), which covers the
\* return after a pending partial match.
C16_SuccessOnlyAfterDelimiter ==
    (Len(sep) > 0 /\ rret = "nil" /\ rlast = "nil") => HasSuffix(Consumed, sep)

(***************************************************************************)
(* Further properties of Translate, checked under Spec and SpecLive.       *)
(***************************************************************************)
\* C14: after a read that returned no bytes and a nil error, and until the
\* next read, no request is sent, nothing is written to the sink and the
\* length of the buffered residue does not change.
C14_ZeroReadOnlyRetried ==
    [][lastZero => (netCalls' = netCalls /\ sink' = sink /\ i' = i)]_vars

\* C15: over a source that delivers finitely many bytes and then answers
\* (0, io.EOF), with a codec and a sink that do not fail, Translate
\* eventually returns nil, with the source exhausted and nothing buffered.
C15_EventuallyReturnsNil ==
    <>(pc = "done" /\ ret = "nil" /\ rest = <<>> /\ i = 0)

\* a return of nil after the residue "a" of the input was sent as the
\* last segment
C15_Witness ==
    /\ ret = "nil"
    /\ delivered = <<NL, "a">>
    /\ segs = <<<<NL>>, <<"a">>>>

\* C20: whenever the loop is about to read, the buffered residue is
\* shorter than the buffer: the read is offered at least one free byte.
C20_ReadHasRoom ==
    pc = "read" => (i >= 0 /\ i <= BufSize - 1)

\* a read offered exactly one free byte
C20_Witness ==
    /\ pc = "read"
    /\ i = BufSize - 1

(***************************************************************************)
(* Further properties of translate's decoder, checked under SpecCodec.     *)
(***************************************************************************)
\* the fragment lists of well-formed responses: non-empty, every fragment
\* an array whose element [0] is a string
StringFragments ==
    {fl \in FragLists : fl # <<>> /\ \A k \in 1..Len(fl) :
                           fl[k].t = "arr" /\ Len(fl[k].v) >= 1 /\ fl[k].v[1].t = "str"}
Joined(fl) == Concat([k \in 1..Len(fl) |-> fl[k].v[1].v])
WithFinalNewline(b) == IF b # <<>> /\ Last(b) = NL THEN b ELSE Append(b, NL)

\* C17: decoding a well-formed response with a non-empty fragment list
\* returns the fragments' element-[0] strings concatenated in array order,
\* with one newline appended exactly when the concatenation does not end
\* with one.
C17_FragmentsJoinedInOrder ==
    \A fl \in StringFragments :
        (Decoded /\ cbody = WellFormed(fl)) => cres = Ok(WithFinalNewline(Joined(fl)))

(***************************************************************************)
(* Properties of Languages, checked under SpecLanguages (calls that do not *)
(* overlap) and SpecLanguagesRace (calls from concurrent goroutines).      *)
(***************************************************************************)
\* the merged catalog of the primary document
Merged == [k \in 1..Len(ldoc) |-> Language(ldoc[k])]

\* C13 as stated: of any two successive calls the second makes no fetch
\* and returns what the first returned.
C13_SecondCallNeverFetches ==
    \A k \in 1..(Len(lhist) - 1) :
        /\ lhist[k + 1].fetches = 0
        /\ lhist[k + 1].err = lhist[k].err
        /\ lhist[k + 1].val = lhist[k].val

\* C13 amended: when the first of two successive calls returns a nil
\* error, the second makes no fetch and returns the same list with a nil
\* error.
C13_CachedAfterSuccess ==
    \A k \in 1..(Len(lhist) - 1) :
        ~lhist[k].err =>
            /\ lhist[k + 1].fetches = 0
            /\ ~lhist[k + 1].err
            /\ lhist[k + 1].val = lhist[k].val

\* a first call that made both fetches, then a second that made none
C13_Witness ==
    /\ Len(lhist) >= 2
    /\ lhist[1] = [err |-> FALSE, val |-> [nil |-> FALSE, list |-> Merged], fetches |-> 2]
    /\ lhist[2] = [err |-> FALSE, val |-> [nil |-> FALSE, list |-> Merged], fetches |-> 0]

\* C18: a call that fails leaves the cache unpopulated, so the call after
\* it fetches again, and every call that returns a nil error returns the
\* whole merged catalog of the primary document.
C18_FailedCallLeavesNoCache ==
    \A k \in 1..Len(lhist) :
        /\ (k > 1 /\ lhist[k - 1].err) => lhist[k].fetches >= 1
        /\ ~lhist[k].err => lhist[k].val = [nil |-> FALSE, list |-> Merged]

\* C19: when calls interleave and none has failed, every call that has
\* returned has returned the whole merged catalog, and the cache holds no
\* entry twice.
C19_InterleavedCallsAgree ==
    (\A k \in 1..Len(lhist) : ~lhist[k].err) =>
        /\ \A k \in 1..Len(lhist) : lhist[k].val = [nil |-> FALSE, list |-> Merged]
        /\ \A a, b \in 1..Len(cachedLangs.list) :
              cachedLangs.list[a] = cachedLangs.list[b] => a = b

====
